---- MODULE Spec2Model ----
(***************************************************************************)
(* Model of "20 Questions/generate_nano_icons.py": the subject loader      *)
(* load_animals, the per-subject asset generator generate (submit, poll,   *)
(* download, save) and the batch loop main.                                *)
(*                                                                         *)
(* A Python str is a sequence of one-character strings, a bytes value a    *)
(* sequence of integers, a csv row a sequence of cells.                    *)
(***************************************************************************)
EXTENDS Integers, Sequences, FiniteSets, TLC

VARIABLES
    table,      \* the rows csv.reader produces for the input file (read-only)
    gen,        \* load_animals generator: "created", "running", "exhausted"
    rows,       \* rows the csv reader has not produced yet
    yielded,    \* values a consumer of load_animals() has received, in order
    pc,         \* position of main / generate
    animal,     \* main's loop variable, generate's parameter
    attempted,  \* subjects generate() was called with, in call order
    task_id,    \* generate's local task_id
    flag,       \* generate's local flag (last successFlag read)
    img,        \* generate's local img.content
    trace,      \* requests and writes of the current (or last) generate() call
    files,      \* OUT_DIR: file name -> bytes
    dirExists,  \* whether OUT_DIR exists
    stdout,     \* lines printed
    name,       \* a subject name given to the file-stem normalization
    stem,       \* result of the last normalization
    prev,       \* result of the normalization before the last
    napplied    \* how many times the normalization was applied

loadVars == <<table, gen, rows, yielded>>
mainVars == <<pc, animal, attempted, task_id, flag, img, trace, files, dirExists, stdout>>
normVars == <<name, stem, prev, napplied>>
vars == <<table, gen, rows, yielded, pc, animal, attempted, task_id, flag, img,
          trace, files, dirExists, stdout, name, stem, prev, napplied>>

----------------------------------------------------------------------------
(* Strings *)

UpperChars == <<"A","B","C","D","E","F","G","H","I","J","K","L","M",
                "N","O","P","Q","R","S","T","U","V","W","X","Y","Z">>
LowerChars == <<"a","b","c","d","e","f","g","h","i","j","k","l","m",
                "n","o","p","q","r","s","t","u","v","w","x","y","z">>

\* characters str.strip() removes
Whitespace == {" ", "\t", "\n", "\r"}

\* str.swapcase() on one character, in the place of str.lower()
LowerCharSwapCase(c) ==
    IF \E i \in 1..Len(UpperChars) : UpperChars[i] = c
    THEN LowerChars[CHOOSE i \in 1..Len(UpperChars) : UpperChars[i] = c]
    ELSE IF \E i \in 1..Len(LowerChars) : LowerChars[i] = c
    THEN UpperChars[CHOOSE i \in 1..Len(LowerChars) : LowerChars[i] = c]
    ELSE c

\* str.lower() on one character
LowerChar(c) ==
    IF \E i \in 1..Len(UpperChars) : UpperChars[i] = c
    THEN LowerChars[CHOOSE i \in 1..Len(UpperChars) : UpperChars[i] = c]
    ELSE c

\* str.lower()
Lower(s) == [i \in 1..Len(s) |-> LowerChar(s[i])]

\* str.replace(' ', '_')
ReplaceSpace(s) == [i \in 1..Len(s) |-> IF s[i] = " " THEN "_" ELSE s[i]]

RECURSIVE LStrip(_)
LStrip(s) ==
    IF s # <<>> /\ Head(s) \in Whitespace THEN LStrip(Tail(s)) ELSE s

RECURSIVE RStrip(_)
RStrip(s) ==
    IF s # <<>> /\ s[Len(s)] \in Whitespace
    THEN RStrip(SubSeq(s, 1, Len(s) - 1))
    ELSE s

\* str.strip()
Strip(s) == RStrip(LStrip(s))

\* animal.lower().replace(' ', '_')
Normalize(s) == ReplaceSpace(Lower(s))

PngSuffix == <<".", "p", "n", "g">>

\* the file name without the lower-casing: f"{animal.replace(' ', '_')}.png"
OutPathKeepCase(a) == ReplaceSpace(a) \o PngSuffix

\* OUT_DIR / f"{animal.lower().replace(' ', '_')}.png", as the name inside OUT_DIR
OutPath(a) == Normalize(a) \o PngSuffix

----------------------------------------------------------------------------
(* load_animals *)

\* the test without the strip: "not row or not row[0]"
SkipsRowNoStrip(row) == row = <<>> \/ row[1] = <<>>

\* line 28: "not row or not row[0].strip()"
SkipsRow(row) == row = <<>> \/ Strip(row[1]) = <<>>

\* lines 27-29: the reader advances past the rows the loop skips
RECURSIVE SkipRows(_)
SkipRows(rs) ==
    IF rs = <<>> THEN <<>>
    ELSE IF SkipsRow(Head(rs)) THEN SkipRows(Tail(rs))
    ELSE rs

\* line 26: next(reader, None) drops the first row, if there is one
DropHeader(rs) == IF rs = <<>> THEN <<>> ELSE Tail(rs)

\* line 30: the value yielded for a row that is not skipped
YieldOf(row) == Strip(row[1])

\* One next() on the generator: runs it from where it stands to its next yield
\* or to its end.
LoaderResume(g, rs) ==
    LET body == IF g = "created" THEN DropHeader(rs) ELSE rs
        rest == SkipRows(body)
    IN  IF g = "exhausted" \/ rest = <<>>
        THEN [gen |-> "exhausted", rows |-> <<>>, yields |-> FALSE, value |-> <<>>]
        ELSE [gen |-> "running", rows |-> Tail(rest), yields |-> TRUE,
              value |-> YieldOf(Head(rest))]

\* list(load_animals()) on a file whose rows are tbl
RECURSIVE Drain(_, _, _)
Drain(g, rs, acc) ==
    LET r == LoaderResume(g, rs)
    IN  IF r.yields THEN Drain(r.gen, r.rows, Append(acc, r.value)) ELSE acc

load_animals(tbl) == Drain("created", tbl, <<>>)

----------------------------------------------------------------------------
(* Remote service and file system, as generate() sees them *)

\* data.get("successFlag") when the response carries no flag (None)
NoFlag == -1

\* values the status endpoint may put in successFlag
FlagValues == {NoFlag, 0, 1, 2, 3, 4}

\* the success test as "if flag:": every flag but 0 and None is a success
IsSuccessFlagTruthy(f) == f # 0 /\ f # NoFlag

\* line 61: "flag == 1"
IsSuccessFlag(f) == f = 1

\* the failure test as "flag == 2": flag 3 is not recognised
IsFailureFlagOnly2(f) == f = 2

\* the failure test as "flag >= 2": every larger flag is a failure
IsFailureFlagAbove1(f) == f >= 2

\* line 70: "flag in (2, 3)"
IsFailureFlag(f) == f \in {2, 3}
IsPendingFlag(f) == ~IsSuccessFlag(f) /\ ~IsFailureFlag(f)

\* r.json()["data"]["taskId"]: the service names each accepted submission with
\* an identifier of its own; here, the number of the submission
FreshTaskId(n) == n
ErrorMessages == {"quota", "None"}
HttpStatuses == {200, 500}

\* What one HTTP request comes back with: no response at all (a transport
\* fault raised by requests.get / requests.post), or a response with a status.
Replies ==
    {[fault |-> TRUE, status |-> 0]}
        \cup {[fault |-> FALSE, status |-> s] : s \in HttpStatuses}

\* raise_for_status() as a test for 4xx only: a 5xx reply passes
RaisesForStatusClientOnly(status) == status >= 400 /\ status < 500

\* Response.raise_for_status()
RaisesForStatus(status) == status >= 400

\* without the raise_for_status() call, only a transport fault raises
FailedReplyNoRaise(r) == r.fault

\* lines 35-47, 52-58, 63-64: the request raises, in requests.post / requests.get
\* or in raise_for_status()
FailedReply(r) == r.fault \/ RaisesForStatus(r.status)

\* the exception a failed request raises
RequestError(r) ==
    IF r.fault THEN [type |-> "ConnectionError", detail |-> "fault"]
    ELSE [type |-> "HTTPError", detail |-> "status"]

\* line 71
TaskFailed(msg) == [type |-> "RuntimeError", detail |-> msg]

NoExc == [type |-> "None", detail |-> ""]

\* the handler as "except RuntimeError"
CatchesOnlyRuntimeError(exc) == exc.type = "RuntimeError"

\* classes "except Exception" (line 79) catches
ExceptionClasses == {"HTTPError", "ConnectionError", "RuntimeError", "KeyError", "OSError"}
Catches(exc) == exc.type \in ExceptionClasses

\* bodies the result URL may return
Contents == {<<>>, <<137, 80>>}
OldBytes == <<9>>

NoFiles == [n \in {} |-> <<>>]

\* the file opened in append mode: the bytes are added to what the file held
WriteBytesAppend(fs, path, bytes) ==
    [n \in (DOMAIN fs) \cup {path} |->
        IF n = path THEN (IF n \in DOMAIN fs THEN fs[n] \o bytes ELSE bytes) ELSE fs[n]]

\* Path.write_bytes
WriteBytes(fs, path, bytes) ==
    [n \in (DOMAIN fs) \cup {path} |-> IF n = path THEN bytes ELSE fs[n]]

\* One entry of trace: the request made (or the file write), what came back,
\* and what the code read from it.
Event(op, task, r, f, data, msg) ==
    [op |-> op, task |-> task, fault |-> r.fault, status |-> r.status,
     flag |-> f, data |-> data, msg |-> msg]

\* a reply that carries the service's JSON body (or the image)
HasBody(r) == ~r.fault /\ r.status = 200

Local == [fault |-> FALSE, status |-> 0]

NPending(tr) ==
    Cardinality({i \in DOMAIN tr :
        tr[i].op = "status" /\ HasBody(tr[i]) /\ IsPendingFlag(tr[i].flag)})

CountOp(tr, op) == Cardinality({i \in DOMAIN tr : tr[i].op = op})

----------------------------------------------------------------------------
(* Bounds and inputs *)

MaxSubjects == 2
MaxPolls == 2

SeqsUpTo(S, n) == UNION {[1..k -> S] : k \in 0..n}

HeaderRow == << <<"h">> >>

MainRows ==
    { << <<"A", " ", "b">> >>,
      << <<"a", "_", "b">> >>,
      << <<" ", "c">>, <<"x">> >>,
      << <<" ">> >> }

MainTables ==
    {<<>>} \cup {HeaderRow \o s : s \in SeqsUpTo(MainRows, MaxSubjects)}

\* OUT_DIR before the run: absent, or holding a file of an earlier run
InitDirs ==
    { [exists |-> FALSE, files |-> NoFiles],
      [exists |-> TRUE, files |-> WriteBytes(NoFiles, OutPath(<<"a", " ", "b">>), OldBytes)] }

----------------------------------------------------------------------------
(* main and generate *)

IdleLoad == gen = "created" /\ rows = <<>> /\ table = <<>> /\ yielded = <<>>
IdleNorm == name = <<>> /\ stem = <<>> /\ prev = <<>> /\ napplied = 0
IdleMain ==
    /\ pc = "idle" /\ animal = <<>> /\ attempted = <<>> /\ task_id = 0
    /\ flag = NoFlag /\ img = <<>> /\ trace = <<>> /\ files = NoFiles
    /\ dirExists = FALSE /\ stdout = <<>>

Init ==
    /\ table \in MainTables
    /\ rows = table
    /\ gen = "created"
    /\ yielded = <<>>
    /\ pc = "next"
    /\ animal = <<>>
    /\ attempted = <<>>
    /\ task_id = 0
    /\ flag = NoFlag
    /\ img = <<>>
    /\ trace = <<>>
    /\ \E d \in InitDirs : files = d.files /\ dirExists = d.exists
    /\ stdout = <<>>
    /\ IdleNorm

\* lines 77-80: an exception leaving generate() reaches main's handler
Raised(exc) ==
    IF Catches(exc)
    THEN /\ stdout' = Append(stdout, [kind |-> "Failed", subject |-> animal,
                                      path |-> <<>>, exc |-> exc])
         /\ pc' = "next"
    ELSE /\ pc' = "crashed"
         /\ UNCHANGED stdout

\* line 76: the for loop asks the loader for the next subject, and line 78
\* calls generate(animal) with it
main_next ==
    /\ pc = "next"
    /\ LET r == LoaderResume(gen, rows)
       IN  /\ gen' = r.gen
           /\ rows' = r.rows
           /\ IF r.yields
              THEN /\ animal' = r.value
                   /\ attempted' = Append(attempted, r.value)
                   /\ pc' = "submit"
                   /\ task_id' = 0
                   /\ flag' = NoFlag
                   /\ img' = <<>>
                   /\ trace' = <<>>
              ELSE /\ pc' = "done"
                   /\ UNCHANGED <<animal, attempted, task_id, flag, img, trace>>
    /\ UNCHANGED <<table, yielded, files, dirExists, stdout>>
    /\ UNCHANGED normVars

\* lines 34-48: the submission request
generate_submit ==
    /\ pc = "submit"
    /\ \E r \in Replies :
         LET t == IF HasBody(r) THEN FreshTaskId(Len(attempted)) ELSE 0
         IN  /\ trace' = Append(trace, Event("submit", t, r, NoFlag, <<>>, ""))
             /\ IF FailedReply(r)
                THEN /\ Raised(RequestError(r))
                     /\ UNCHANGED task_id
                ELSE /\ task_id' = t
                     /\ pc' = "poll"
                     /\ UNCHANGED stdout
    /\ UNCHANGED <<animal, attempted, flag, img, files, dirExists>>
    /\ UNCHANGED loadVars
    /\ UNCHANGED normVars

\* lines 52-61, 70-71: one status query and the test of its flag
generate_poll ==
    /\ pc = "poll"
    /\ \E r \in Replies, f \in FlagValues, m \in ErrorMessages :
         /\ ~HasBody(r) => f = NoFlag
         /\ f \notin {2, 3} => m = "None"
         /\ (HasBody(r) /\ IsPendingFlag(f)) => NPending(trace) < MaxPolls
         /\ trace' = Append(trace, Event("status", task_id, r, f, <<>>, m))
         /\ IF FailedReply(r)
            THEN /\ Raised(RequestError(r))
                 /\ UNCHANGED flag
            ELSE /\ flag' = f
                 /\ IF IsSuccessFlag(f) THEN pc' = "download" /\ UNCHANGED stdout
                    ELSE IF IsFailureFlag(f) THEN Raised(TaskFailed(m))
                    ELSE pc' = "sleep" /\ UNCHANGED stdout
    /\ UNCHANGED <<animal, attempted, task_id, img, files, dirExists>>
    /\ UNCHANGED loadVars
    /\ UNCHANGED normVars

\* the loop placed around the whole body: after the sleep the request is
\* submitted again
generate_sleep_resubmits ==
    /\ pc = "sleep"
    /\ pc' = "submit"
    /\ UNCHANGED <<animal, attempted, task_id, flag, img, trace, files, dirExists, stdout>>
    /\ UNCHANGED loadVars
    /\ UNCHANGED normVars

\* line 72: time.sleep(1.0), then the loop starts over
generate_sleep ==
    /\ pc = "sleep"
    /\ pc' = "poll"
    /\ UNCHANGED <<animal, attempted, task_id, flag, img, trace, files, dirExists, stdout>>
    /\ UNCHANGED loadVars
    /\ UNCHANGED normVars

\* the download with its error swallowed inside the loop: a failed request
\* sends the loop back to the status query
generate_download_retries ==
    /\ pc = "download"
    /\ \E r \in Replies, c \in Contents :
         /\ ~HasBody(r) => c = <<>>
         /\ trace' = Append(trace, Event("download", task_id, r, flag, c, ""))
         /\ IF FailedReply(r)
            THEN /\ pc' = "poll"
                 /\ UNCHANGED <<img, stdout>>
            ELSE /\ img' = c
                 /\ pc' = "write"
                 /\ UNCHANGED stdout
    /\ UNCHANGED <<animal, attempted, task_id, flag, files, dirExists>>
    /\ UNCHANGED loadVars
    /\ UNCHANGED normVars

\* the download with the output file opened for writing before the request:
\* a failed request leaves the file truncated
generate_download_file_first ==
    /\ pc = "download"
    /\ \E r \in Replies, c \in Contents :
         /\ ~HasBody(r) => c = <<>>
         /\ trace' = Append(trace, Event("download", task_id, r, flag, c, ""))
         /\ dirExists' = TRUE
         /\ files' = WriteBytes(files, OutPath(animal), <<>>)
         /\ IF FailedReply(r)
            THEN /\ Raised(RequestError(r))
                 /\ UNCHANGED img
            ELSE /\ img' = c
                 /\ pc' = "write"
                 /\ UNCHANGED stdout
    /\ UNCHANGED <<animal, attempted, task_id, flag>>
    /\ UNCHANGED loadVars
    /\ UNCHANGED normVars

\* lines 62-64: the request for the result image
generate_download ==
    /\ pc = "download"
    /\ \E r \in Replies, c \in Contents :
         /\ ~HasBody(r) => c = <<>>
         /\ trace' = Append(trace, Event("download", task_id, r, flag, c, ""))
         /\ IF FailedReply(r)
            THEN /\ Raised(RequestError(r))
                 /\ UNCHANGED img
            ELSE /\ img' = c
                 /\ pc' = "write"
                 /\ UNCHANGED stdout
    /\ UNCHANGED <<animal, attempted, task_id, flag, files, dirExists>>
    /\ UNCHANGED loadVars
    /\ UNCHANGED normVars

\* lines 65-69: mkdir, write_bytes, print, return
generate_write ==
    /\ pc = "write"
    /\ dirExists' = TRUE
    /\ files' = WriteBytes(files, OutPath(animal), img)
    /\ trace' = Append(trace, Event("write", task_id, Local, flag, img, ""))
    /\ stdout' = Append(stdout, [kind |-> "Saved", subject |-> animal,
                                 path |-> OutPath(animal), exc |-> NoExc])
    /\ pc' = "next"
    /\ UNCHANGED <<animal, attempted, task_id, flag, img>>
    /\ UNCHANGED loadVars
    /\ UNCHANGED normVars

Next ==
    \/ main_next
    \/ generate_submit
    \/ generate_poll
    \/ generate_sleep
    \/ generate_download
    \/ generate_write

Spec == Init /\ [][Next]_vars

----------------------------------------------------------------------------
(* Properties *)

Last(q) == q[Len(q)]

\* generate() has returned or raised, and main has not called it again
AttemptEnded == trace # <<>> /\ pc \in {"next", "done"}

Failed(a, exc) == [kind |-> "Failed", subject |-> a, path |-> <<>>, exc |-> exc]
Saved(a, path) == [kind |-> "Saved", subject |-> a, path |-> path, exc |-> NoExc]

StatusAt(i) == trace[i].op = "status" /\ HasBody(trace[i])
PendingAt(i) == StatusAt(i) /\ trace[i].flag \notin {1, 2, 3}
SuccessAt(i) == StatusAt(i) /\ trace[i].flag = 1
FailureAt(i) == StatusAt(i) /\ trace[i].flag \in {2, 3}

DirUnchanged == files' = files /\ dirExists' = dirExists

\* C1: main attempts every subject the loader yields exactly once, in loader
\* order, whatever the outcome of each subject; every attempt is reported as
\* saved or failed, and no exception raised in generate() leaves main.
C1_EverySubjectAttempted ==
    LET subjects == load_animals(table)
    IN  /\ pc # "crashed"
        /\ Len(attempted) <= Len(subjects)
        /\ attempted = SubSeq(subjects, 1, Len(attempted))
        /\ pc = "done" => attempted = subjects
        /\ pc \in {"next", "done"} =>
              /\ Len(stdout) = Len(attempted)
              /\ \A i \in DOMAIN stdout : stdout[i].subject = attempted[i]

\* a finished batch of two subjects whose first subject failed on a request
\* and whose second was saved
C1_Witness ==
    /\ pc = "done"
    /\ Len(attempted) = 2
    /\ stdout[1].kind = "Failed"
    /\ stdout[1].exc.type = "HTTPError"
    /\ stdout[2].kind = "Saved"

\* C2: after generate() returns normally, the file <normalized-subject>.png
\* exists in the output directory and is not empty, whatever bytes the result
\* URL returned.
C2_SavedFileNonEmpty ==
    (AttemptEnded /\ Last(stdout).kind = "Saved") =>
        /\ OutPath(animal) \in DOMAIN files
        /\ files[OutPath(animal)] # <<>>

AllSaved == \A i \in DOMAIN stdout : stdout[i].kind = "Saved"
WrittenPaths == {stdout[i].path : i \in {j \in DOMAIN stdout : stdout[j].kind = "Saved"}}
SubjectNames == {attempted[i] : i \in DOMAIN attempted}

\* C3 (as claimed): after a run in which every subject succeeds, the number of
\* files written equals the number of distinct subject names.
C3_OneFilePerName ==
    (pc = "done" /\ AllSaved) =>
        Cardinality(WrittenPaths) = Cardinality(SubjectNames)

\* C3 (amended): after a run in which every subject succeeds, the number of
\* files written equals the number of distinct normalized subject names, each
\* subject's file <normalized-subject>.png exists, and two subjects share a
\* file exactly when their names normalize to the same stem.
C3_OneFilePerStem ==
    (pc = "done" /\ AllSaved) =>
        /\ Cardinality(WrittenPaths) = Cardinality({Normalize(a) : a \in SubjectNames})
        /\ \A a \in SubjectNames : Normalize(a) \o PngSuffix \in (DOMAIN files) \cap WrittenPaths
        /\ \A i, j \in DOMAIN stdout :
              (stdout[i].path = stdout[j].path)
                  <=> (Normalize(attempted[i]) = Normalize(attempted[j]))

\* a run of two distinct subject names, both saved, into one file
C3_Witness ==
    /\ pc = "done"
    /\ AllSaved
    /\ Cardinality(SubjectNames) = 2
    /\ Cardinality(WrittenPaths) = 1

\* a status response with flag 2 or 3 is the last event of its call, and the
\* last line printed is that subject's failure with the service's message
C4_FailureFlagState ==
    \A i \in DOMAIN trace :
        FailureAt(i) =>
            /\ i = Len(trace)
            /\ pc \in {"next", "done"}
            /\ CountOp(trace, "download") = 0
            /\ CountOp(trace, "write") = 0
            /\ stdout # <<>>
            /\ Last(stdout) = Failed(animal, [type |-> "RuntimeError", detail |-> trace[i].msg])

\* the step that reads flag 2 or 3 leaves the output directory as it was
C4_FailureFlagStep ==
    (Len(trace') = Len(trace) + 1 /\ Last(trace').op = "status" /\ HasBody(Last(trace'))
        /\ Last(trace').flag \in {2, 3}) => DirUnchanged

\* C4: once a status response carries flag 2 or 3, nothing follows it in that
\* call of generate(): no further request, no download, no file write; the
\* step leaves the output directory as it was, and main prints the failure
\* with the error message the service sent.
C4_FailureFlagSurfaced == [](C4_FailureFlagState) /\ [][C4_FailureFlagStep]_vars

\* flag 3 with the message "quota", after one pending response
C4_Witness ==
    /\ Len(trace) = 3
    /\ PendingAt(2)
    /\ FailureAt(3)
    /\ trace[3].flag = 3
    /\ trace[3].msg = "quota"
    /\ Last(stdout).exc.detail = "quota"

\* C5: a submission answered with a non-success HTTP status is the only
\* request of that call of generate(): no status query, no download, and the
\* subject is printed as failed.
C5_FailedSubmissionNeverPolls ==
    \A i \in DOMAIN trace :
        (trace[i].op = "submit" /\ ~trace[i].fault /\ trace[i].status >= 400) =>
            /\ Len(trace) = 1
            /\ CountOp(trace, "status") = 0
            /\ CountOp(trace, "download") = 0
            /\ pc \in {"next", "done"}
            /\ stdout # <<>>
            /\ Last(stdout).kind = "Failed"
            /\ Last(stdout).subject = animal

C5_Witness ==
    /\ pc = "next"
    /\ Len(attempted) = 1
    /\ Len(trace) = 1
    /\ trace[1].op = "submit"
    /\ trace[1].status = 500
    /\ Last(stdout).kind = "Failed"

NStatusBefore(j) == Cardinality({i \in 1..(j - 1) : trace[i].op = "status"})
NPendingBefore(j) == Cardinality({i \in 1..(j - 1) : PendingAt(i)})
HasSuccess == \E i \in DOMAIN trace : SuccessAt(i)
PendingThenSuccess ==
    \E k \in DOMAIN trace :
        /\ SuccessAt(k)
        /\ \A i \in 2..(k - 1) : PendingAt(i)

\* the download comes after exactly N+1 status queries, N of them answered
\* pending and the last one answered success; no status query follows it
QueriesBeforeDownload ==
    \A j \in DOMAIN trace :
        /\ trace[j].op = "download" =>
              /\ NStatusBefore(j) = NPendingBefore(j) + 1
              /\ SuccessAt(j - 1)
              /\ CountOp(trace, "status") = NStatusBefore(j)
        /\ SuccessAt(j) => CountOp(trace, "status") = NPendingBefore(j) + 1

\* C6 (as claimed): with a status endpoint answering pending N times and then
\* success, generate() makes N+1 status queries before downloading, then
\* exactly one download and one file write.
C6_OneDownloadOneWrite ==
    /\ QueriesBeforeDownload
    /\ (AttemptEnded /\ PendingThenSuccess) =>
          /\ CountOp(trace, "download") = 1
          /\ CountOp(trace, "write") = 1

\* C6 (amended): with a status endpoint answering pending N times and then
\* success, generate() makes N+1 status queries before downloading, then
\* exactly one download, and one file write if that download succeeds, none
\* if it fails.
C6_OneDownloadWriteIfFetched ==
    /\ QueriesBeforeDownload
    /\ (AttemptEnded /\ PendingThenSuccess) =>
          /\ CountOp(trace, "download") = 1
          /\ \A j \in DOMAIN trace :
                trace[j].op = "download" =>
                    CountOp(trace, "write") =
                        IF ~trace[j].fault /\ trace[j].status < 400 THEN 1 ELSE 0

\* two pending responses, then success, download and write
C6_Witness ==
    /\ AttemptEnded
    /\ Len(trace) = 6
    /\ PendingAt(2) /\ PendingAt(3) /\ SuccessAt(4)
    /\ trace[5].op = "download"
    /\ trace[6].op = "write"

\* a step that changes the directory is the write that completes a subject,
\* and it changes that subject's file only
C9_DirStep ==
    (~DirUnchanged) =>
        /\ pc = "write" /\ pc' = "next"
        /\ HasSuccess
        /\ stdout' = Append(stdout, Saved(animal, Normalize(animal) \o PngSuffix))
        /\ dirExists'
        /\ DOMAIN files' = (DOMAIN files) \cup {Normalize(animal) \o PngSuffix}
        /\ \A n \in DOMAIN files :
              n # Normalize(animal) \o PngSuffix => files'[n] = files[n]

\* a step that prints a failure leaves the directory as it was
C9_FailStep ==
    (Len(stdout') = Len(stdout) + 1 /\ Last(stdout').kind = "Failed") => DirUnchanged

\* C9: the output directory changes only in the step that completes a subject
\* successfully, and that step changes only that subject's file: a subject
\* that fails (on submission, on a status query, on flag 2 or 3, or on the
\* download) leaves every file, and the directory, as it was.
C9_FailureLeavesDirectory == [][C9_DirStep /\ C9_FailStep]_vars

\* a subject whose download failed, with the earlier run's file of the same
\* name still holding its bytes
C9_Witness ==
    /\ AttemptEnded
    /\ Last(trace).op = "download"
    /\ Last(stdout).kind = "Failed"
    /\ OutPath(animal) \in DOMAIN files
    /\ files[OutPath(animal)] = OldBytes

\* what a pending response, the sleep and the next pass of the loop do
C10_PendingStep ==
    /\ (Len(trace') = Len(trace) + 1 /\ Last(trace').op = "status" /\ HasBody(Last(trace'))
          /\ Last(trace').flag \notin {1, 2, 3}) =>
              /\ pc' = "sleep"
              /\ DirUnchanged
              /\ stdout' = stdout
              /\ task_id' = task_id
              /\ attempted' = attempted
    /\ pc = "sleep" =>
          /\ pc' = "poll"
          /\ trace' = trace
          /\ task_id' = task_id
          /\ DirUnchanged
          /\ stdout' = stdout
    /\ pc = "poll" =>
          /\ Len(trace') = Len(trace) + 1
          /\ Last(trace').op = "status"
          /\ Last(trace').task = task_id

\* C10: a status response whose flag is none of 1, 2, 3 (no flag included)
\* neither ends the call nor touches the directory or the output: generate()
\* sleeps, and the next request it makes is a status query for the same job.
C10_OtherFlagsStillRunning == [][C10_PendingStep]_vars

\* a response without a flag, then one with flag 4, then a third status query
C10_Witness ==
    /\ Len(trace) >= 4
    /\ PendingAt(2) /\ trace[2].flag = NoFlag
    /\ PendingAt(3) /\ trace[3].flag = 4
    /\ trace[4].op = "status"
    /\ trace[4].task = trace[1].task
    /\ trace[1].task # 0


\* C11: a status query that ends in a transport fault or a non-2xx reply is
\* the last request of its call of generate(), however many pending responses
\* came before it: no further status query, no download, no file write, and
\* main prints the subject as failed with the request's error.
C11_StatusErrorFailsAtOnce ==
    \A i \in DOMAIN trace :
        (trace[i].op = "status" /\ (trace[i].fault \/ trace[i].status >= 400)) =>
            /\ i = Len(trace)
            /\ CountOp(trace, "status") = i - 1
            /\ CountOp(trace, "submit") = 1
            /\ CountOp(trace, "download") = 0
            /\ CountOp(trace, "write") = 0
            /\ pc \in {"next", "done"}
            /\ stdout # <<>>
            /\ Last(stdout).kind = "Failed"
            /\ Last(stdout).subject = animal
            /\ Last(stdout).exc.type \in {"ConnectionError", "HTTPError"}

\* two pending responses, then a status query answered 500
C11_Witness ==
    /\ Len(trace) = 4
    /\ PendingAt(2) /\ PendingAt(3)
    /\ trace[4].op = "status"
    /\ trace[4].status = 500
    /\ pc = "next"
    /\ Last(stdout).exc.type = "HTTPError"

\* place of a request in one call of generate()
Rank(op) ==
    CASE op = "submit" -> 1
      [] op = "status" -> 2
      [] op = "download" -> 3
      [] op = "write" -> 4

\* within one call: the submission first and once, then status queries, then
\* at most one download, then at most one file write
C13_OrderInCall ==
    trace # <<>> =>
        /\ trace[1].op = "submit"
        /\ \A i, j \in DOMAIN trace :
              i < j => (Rank(trace[i].op) <= Rank(trace[j].op) /\ trace[j].op # "submit")
        /\ CountOp(trace, "download") <= 1
        /\ CountOp(trace, "write") <= 1

\* a request or write is made for the current subject only, when every
\* earlier subject has been reported saved or failed; the next subject is
\* taken only when the current one has been reported
C13_SubjectStep ==
    /\ Len(trace') = Len(trace) + 1 =>
          /\ attempted' = attempted
          /\ pc \in {"submit", "poll", "download", "write"}
          /\ Len(stdout) = Len(attempted) - 1
    /\ attempted' # attempted =>
          /\ pc = "next"
          /\ Len(stdout) = Len(attempted)
          /\ attempted' = Append(attempted, animal')
          /\ trace' = <<>>

\* C13: processing is strictly sequential: every request is made for the
\* current subject after all earlier subjects have ended in success or
\* failure, and within one subject the order is submission, status queries,
\* at most one download, at most one file write.
C13_StrictlySequential == [](C13_OrderInCall) /\ [][C13_SubjectStep]_vars

\* the second subject at its download, after the first subject was reported
C13_Witness ==
    /\ Len(attempted) = 2
    /\ Len(stdout) = 1
    /\ Len(trace) = 4
    /\ PendingAt(2)
    /\ SuccessAt(3)
    /\ trace[4].op = "download"

\* a file write is the last event of its call, follows the successful
\* download that follows the job's flag 1, and leaves the downloaded bytes in
\* the subject's file
C14_WriteState ==
    \A i \in DOMAIN trace :
        trace[i].op = "write" =>
            /\ i >= 4
            /\ i = Len(trace)
            /\ trace[1].op = "submit"
            /\ SuccessAt(i - 2)
            /\ trace[i - 2].task = trace[1].task
            /\ trace[i - 1].op = "download"
            /\ ~trace[i - 1].fault /\ trace[i - 1].status < 400
            /\ trace[i - 1].task = trace[1].task
            /\ trace[i].data = trace[i - 1].data
            /\ Normalize(animal) \o PngSuffix \in DOMAIN files
            /\ files[Normalize(animal) \o PngSuffix] = trace[i - 1].data
            /\ stdout # <<>>
            /\ Last(stdout) = Saved(animal, Normalize(animal) \o PngSuffix)

\* the directory changes only in a step that records a file write
C14_WriteStep ==
    (~DirUnchanged) => (Len(trace') = Len(trace) + 1 /\ Last(trace').op = "write")

\* C14: every file written belongs to a subject whose own job returned flag 1
\* and whose download succeeded, never to one whose last status was pending
\* or failure, and the bytes written are the bytes downloaded for that job.
C14_WritesOnlyFetchedBytes == [](C14_WriteState) /\ [][C14_WriteStep]_vars

\* the second subject's downloaded bytes written to its file
C14_Witness ==
    /\ Len(attempted) = 2
    /\ Len(trace) = 5
    /\ PendingAt(2)
    /\ Last(trace).op = "write"
    /\ Last(trace).data = <<137, 80>>
    /\ files[OutPath(animal)] = <<137, 80>>

\* C15: each call of generate() makes exactly one submission request, first;
\* every status query of the call carries the identifier that submission
\* returned, which is none of the identifiers of the earlier subjects.
C15_OwnTaskQueried ==
    /\ pc \in {"poll", "sleep", "download", "write"} => trace # <<>>
    /\ (pc \in {"next", "done"} /\ attempted # <<>>) => trace # <<>>
    /\ trace # <<>> =>
          /\ trace[1].op = "submit"
          /\ CountOp(trace, "submit") = 1
          /\ \A i \in DOMAIN trace :
                trace[i].op = "status" =>
                    /\ HasBody(trace[1])
                    /\ trace[i].task = trace[1].task
                    /\ \A k \in 1..(Len(attempted) - 1) : trace[i].task # FreshTaskId(k)

\* the second subject polled twice under its own identifier, after the first
\* subject's job had been polled and had failed
C15_Witness ==
    /\ Len(attempted) = 2
    /\ stdout # <<>>
    /\ stdout[1].exc.type = "RuntimeError"
    /\ Len(trace) >= 3
    /\ trace[1].task = FreshTaskId(2)
    /\ trace[2].op = "status" /\ trace[2].task = FreshTaskId(2)
    /\ trace[3].op = "status" /\ trace[3].task = FreshTaskId(2)

----------------------------------------------------------------------------
(* The loader alone: a consumer draining load_animals() *)

MaxRows == 3

LoadRows ==
    { <<>>,
      << <<>> >>,
      << <<" ">> >>,
      << <<"\t", " ">> >>,
      << <<"a">> >>,
      << <<" ", "a", " ">> >>,
      << <<"a", " ", "b">> >>,
      << <<>>, <<"x">> >>,
      << <<"b", "\t">>, <<"x">> >> }

LoadTables == SeqsUpTo(LoadRows, MaxRows)

InitLoad ==
    /\ table \in LoadTables
    /\ rows = table
    /\ gen = "created"
    /\ yielded = <<>>
    /\ IdleMain
    /\ IdleNorm

\* next(g) on g = load_animals(), by a consumer that keeps what it gets
load_next ==
    /\ gen # "exhausted"
    /\ LET r == LoaderResume(gen, rows)
       IN  /\ gen' = r.gen
           /\ rows' = r.rows
           /\ yielded' = IF r.yields THEN Append(yielded, r.value) ELSE yielded
    /\ UNCHANGED table
    /\ UNCHANGED mainVars
    /\ UNCHANGED normVars

NextLoad == load_next

SpecLoad == InitLoad /\ [][NextLoad]_vars

----------------------------------------------------------------------------
(* Properties of the loader *)

\* a first column that is empty or holds only whitespace
IsBlank(cell) == \A i \in DOMAIN cell : cell[i] \in Whitespace

KeepsRow(row) == Len(row) > 0 /\ ~IsBlank(row[1])

\* the rows after the header row that are not skipped, in input order
KeptRows(tbl) == SelectSeq(SubSeq(tbl, 2, Len(tbl)), KeepsRow)

\* y is cell without the whitespace at its two ends
IsStripOf(y, cell) ==
    /\ y # <<>> => (y[1] \notin Whitespace /\ y[Len(y)] \notin Whitespace)
    /\ \E i \in 0..Len(cell) :
          /\ i + Len(y) <= Len(cell)
          /\ SubSeq(cell, i + 1, i + Len(y)) = y
          /\ \A k \in 1..i : cell[k] \in Whitespace
          /\ \A k \in (i + Len(y) + 1)..Len(cell) : cell[k] \in Whitespace

ExampleTable ==
    << << <<"A", "n", "i", "m", "a", "l">> >>,
       << <<"D", "o", "g">> >>,
       << <<>> >>,
       << <<"C", "a", "t">> >> >>

\* C7 (as claimed): the loader yields the first-column values of the rows
\* after the header, in row order, skipping exactly the rows whose first
\* column is empty or whitespace-only and the rows with no columns.
C7_YieldsFirstColumn ==
    gen = "exhausted" =>
        yielded = [i \in 1..Len(KeptRows(table)) |-> KeptRows(table)[i][1]]

\* C7 (amended): the loader yields, in row order, the first-column value of
\* each row after the header with the whitespace at its ends removed,
\* skipping exactly the rows whose first column is empty or whitespace-only
\* and the rows with no columns; the rows "Animal", "Dog", "", "Cat" yield
\* "Dog", "Cat".
C7_YieldsStrippedFirstColumn ==
    /\ Len(yielded) <= Len(KeptRows(table))
    /\ \A i \in DOMAIN yielded : IsStripOf(yielded[i], KeptRows(table)[i][1])
    /\ gen = "exhausted" => Len(yielded) = Len(KeptRows(table))
    /\ load_animals(ExampleTable) = << <<"D", "o", "g">>, <<"C", "a", "t">> >>

\* a whitespace-only row skipped and a padded value yielded without its padding
C7_Witness ==
    /\ gen = "exhausted"
    /\ table = << << <<"a">> >>, << <<"\t", " ">> >>, << <<" ", "a", " ">> >> >>
    /\ yielded = << <<"a">> >>

----------------------------------------------------------------------------
(* The file-stem normalization alone, applied once and once more *)

MaxLen == 3

NormAlphabet == {"A", "a", "Z", " ", "_"}

InitNorm ==
    /\ name \in SeqsUpTo(NormAlphabet, MaxLen)
    /\ stem = <<>>
    /\ prev = <<>>
    /\ napplied = 0
    /\ IdleMain
    /\ IdleLoad

\* animal.lower().replace(' ', '_') on the subject name
normalize_once ==
    /\ napplied = 0
    /\ stem' = Normalize(name)
    /\ prev' = name
    /\ napplied' = 1
    /\ UNCHANGED name
    /\ UNCHANGED mainVars
    /\ UNCHANGED loadVars

\* the same expression on its own result
normalize_again ==
    /\ napplied = 1
    /\ stem' = Normalize(stem)
    /\ prev' = stem
    /\ napplied' = 2
    /\ UNCHANGED name
    /\ UNCHANGED mainVars
    /\ UNCHANGED loadVars

NextNorm == normalize_once \/ normalize_again

SpecNorm == InitNorm /\ [][NextNorm]_vars

----------------------------------------------------------------------------
(* Properties of the normalization *)

RedPanda == <<"R", "e", "d", " ", "P", "a", "n", "d", "a">>

\* C8: normalizing a normalized name changes nothing; a normalized name has
\* the length of the name, no space and no upper-case letter; "Red Panda"
\* normalizes to "red_panda".
C8_NormalizeIdempotent ==
    /\ napplied = 2 => stem = prev
    /\ napplied >= 1 =>
          /\ Len(stem) = Len(name)
          /\ \A i \in DOMAIN stem :
                /\ stem[i] # " "
                /\ \A u \in DOMAIN UpperChars : stem[i] # UpperChars[u]
    /\ Normalize(RedPanda) = <<"r", "e", "d", "_", "p", "a", "n", "d", "a">>

\* "A Z" normalized to "a_z", and normalized again
C8_Witness ==
    /\ napplied = 2
    /\ name = <<"A", " ", "Z">>
    /\ prev = <<"a", "_", "z">>
    /\ stem = <<"a", "_", "z">>

----------------------------------------------------------------------------
(* main with a job that may stay pending for ever.  trace records the first *)
(* MaxPolls pending responses of a call; the loop goes on past them.        *)

MaxLiveSubjects == 2

LiveRows == { << <<"c">> >> }

LiveTables == {HeaderRow \o s : s \in SeqsUpTo(LiveRows, MaxLiveSubjects)}

InitLive ==
    /\ table \in LiveTables
    /\ rows = table
    /\ gen = "created"
    /\ yielded = <<>>
    /\ pc = "next"
    /\ animal = <<>>
    /\ attempted = <<>>
    /\ task_id = 0
    /\ flag = NoFlag
    /\ img = <<>>
    /\ trace = <<>>
    /\ files = NoFiles
    /\ dirExists = FALSE
    /\ stdout = <<>>
    /\ IdleNorm

\* the loop with an iteration limit: past the limit a pending response raises
generate_poll_gives_up ==
    /\ pc = "poll"
    /\ NPending(trace) >= MaxPolls
    /\ \E f \in FlagValues :
         /\ IsPendingFlag(f)
         /\ flag' = f
         /\ Raised(TaskFailed("timeout"))
    /\ UNCHANGED <<animal, attempted, task_id, img, trace, files, dirExists>>
    /\ UNCHANGED loadVars
    /\ UNCHANGED normVars

\* lines 51-61, 70-72: one more status query answered pending, after the
\* pending responses trace records: neither test matches and the loop sleeps
generate_poll_on ==
    /\ pc = "poll"
    /\ NPending(trace) >= MaxPolls
    /\ \E f \in FlagValues :
         /\ IsPendingFlag(f)
         /\ flag' = f
         /\ pc' = "sleep"
    /\ UNCHANGED <<animal, attempted, task_id, img, trace, files, dirExists, stdout>>
    /\ UNCHANGED loadVars
    /\ UNCHANGED normVars

NextLive ==
    \/ main_next
    \/ generate_submit
    \/ generate_poll
    \/ generate_poll_on
    \/ generate_sleep
    \/ generate_download
    \/ generate_write

\* every request returns (timeout=60) and time.sleep(1.0) returns: the one
\* thread always takes its next step
SpecLive == InitLive /\ [][NextLive]_vars /\ WF_vars(NextLive)

Polling == pc \in {"poll", "sleep"}

\* the batch ends with every subject attempted exactly when no job stays
\* pending for ever
C12_TerminatesIff ==
    /\ (<>(pc = "done" /\ attempted = load_animals(table))) \/ (<>[]Polling)
    /\ ~((<>(pc = "done")) /\ (<>[]Polling))

\* however many status queries were made, a pending response is followed by
\* the sleep and the sleep by another status query
C12_NoBound ==
    /\ pc = "poll" => ENABLED ((generate_poll \/ generate_poll_on) /\ pc' = "sleep")
    /\ pc = "sleep" => ENABLED (generate_sleep /\ pc' = "poll")

\* while a job is polled no subject is taken from the loader
C12_PollingStep ==
    Polling => (attempted' = attempted /\ rows' = rows /\ gen' = gen)

\* C12: the batch terminates with every subject attempted if and only if no
\* job stays pending for ever: the polling loop has no iteration bound or
\* timeout, and while it polls no later subject is attempted.
C12_TerminatesIffNoJobHangs ==
    C12_TerminatesIff /\ [](C12_NoBound) /\ [][C12_PollingStep]_vars

\* the first subject still polled after more pending responses than trace
\* records, with a second subject waiting in the loader
C12_Witness ==
    /\ pc = "sleep"
    /\ Len(attempted) = 1
    /\ rows # <<>>
    /\ NPending(trace) = MaxPolls
    /\ flag # Last(trace).flag

====
